---- MODULE Spec2Model ----
(***************************************************************************)
(* A model of compas' homogeneous transformation algebra:                  *)
(*   src/src/compas/geometry/_transformations/transformation.py            *)
(*   src/src/compas/geometry/_transformations/scale.py                     *)
(*                                                                         *)
(* Numbers are exact rationals <<n, d>> in lowest terms with d > 0, so     *)
(* that the 1e-5 tolerance of the comparisons is a real threshold and a    *)
(* matrix inverse is a real inverse.  Python lists are heap cells: a       *)
(* matrix is an outer list of four references to row lists.                *)
(***************************************************************************)
EXTENDS Integers, Sequences, FiniteSets, TLC

VARIABLES
    objs,    \* heap: the Transformation instances, [cls, matrix]
    outer,   \* heap: the outer lists, each a sequence of row references
    rows,    \* heap: the row lists, each a sequence of numbers
    last,    \* the last operation performed on the heap and its outcome
    steps,   \* number of operations performed on the heap
    call,    \* the call under examination (pure functions and factories)
    ret,     \* what the call returned or raised
    pc       \* "heap" | "call" | "done"

vars == <<objs, outer, rows, last, steps, call, ret, pc>>

(***************************************************************************)
(* Rational arithmetic.                                                    *)
(***************************************************************************)
Abs(x) == IF x < 0 THEN -x ELSE x

RECURSIVE Gcd(_, _)
Gcd(a, b) == IF b = 0 THEN a ELSE Gcd(b, a % b)

Rat(n, d) ==
    LET g == Gcd(Abs(n), Abs(d))
        s == IF d < 0 THEN -1 ELSE 1
    IN  <<(s * n) \div g, (s * d) \div g>>

R(n) == <<n, 1>>
Zero == <<0, 1>>
One == <<1, 1>>

\* sum over the least common denominator, product with the common factors
\* cancelled first: the intermediate integers stay small
RAddG(a, b, g) ==
    Rat(a[1] * (b[2] \div g) + b[1] * (a[2] \div g), (a[2] \div g) * b[2])
RAdd(a, b) ==
    IF a[1] = 0 THEN b
    ELSE IF b[1] = 0 THEN a
    ELSE RAddG(a, b, Gcd(a[2], b[2]))
RNeg(a) == <<-a[1], a[2]>>
RSub(a, b) == RAdd(a, RNeg(b))
RMulG(a, b, g1, g2) ==
    <<(a[1] \div g1) * (b[1] \div g2), (a[2] \div g2) * (b[2] \div g1)>>
RMul(a, b) ==
    IF a[1] = 0 \/ b[1] = 0 THEN Zero
    ELSE RMulG(a, b, Gcd(Abs(a[1]), b[2]), Gcd(Abs(b[1]), a[2]))
RDiv(a, b) == Rat(a[1] * b[2], a[2] * b[1])
RAbs(a) == <<Abs(a[1]), a[2]>>
RLt(a, b) == a[1] * b[2] < b[1] * a[2]
RGt(a, b) == RLt(b, a)

\* math.sqrt on the squares the inputs of the model produce
ISqrt(n) == CHOOSE k \in 0..n : k * k = n
RSqrt(a) == <<ISqrt(a[1]), ISqrt(a[2])>>

(***************************************************************************)
(* Matrix kernel (compas.geometry, not part of the source files at hand).  *)
(***************************************************************************)
I4 == 1..4
I3 == 1..3

\* identity_matrix(4)
identity_matrix ==
    [i \in I4 |-> [j \in I4 |-> IF i = j THEN One ELSE Zero]]

RECURSIVE RSum(_, _)
RSum(f, n) == IF n = 0 THEN Zero ELSE RAdd(f[n], RSum(f, n - 1))

\* a list of four items, and a list of four such lists
List4(f) == <<f[1], f[2], f[3], f[4]>>
Lists4(F) == <<List4(F[1]), List4(F[2]), List4(F[3]), List4(F[4])>>

\* multiply_matrices(A, B): the standard matrix product
multiply_matrices(A, B) ==
    Lists4([i \in 1..Len(A) |-> [j \in 1..Len(B[1]) |->
        RSum([k \in 1..Len(B) |-> RMul(A[i][k], B[k][j])], Len(B))]])

\* transpose_matrix(M)
transpose_matrix(M) ==
    Lists4([i \in 1..Len(M[1]) |-> [j \in 1..Len(M) |-> M[j][i]]])

Det2(a, b, c, d) == RSub(RMul(a, d), RMul(b, c))

\* determinant of the 3x3 matrix with rows r1, r2, r3
Det3(M) ==
    RAdd(RSub(RMul(M[1][1], Det2(M[2][2], M[2][3], M[3][2], M[3][3])),
              RMul(M[1][2], Det2(M[2][1], M[2][3], M[3][1], M[3][3]))),
         RMul(M[1][3], Det2(M[2][1], M[2][2], M[3][1], M[3][2])))

\* the 3x3 minor of M without row i and column j
Minor(M, i, j) ==
    LET ri == [k \in I3 |-> IF k < i THEN k ELSE k + 1]
        cj == [k \in I3 |-> IF k < j THEN k ELSE k + 1]
    IN  [a \in I3 |-> [b \in I3 |-> M[ri[a]][cj[b]]]]

Cofactor(M, i, j) ==
    IF (i + j) % 2 = 0 THEN Det3(Minor(M, i, j)) ELSE RNeg(Det3(Minor(M, i, j)))

\* matrix_determinant(M): cofactor expansion along the first row
matrix_determinant(M) ==
    RSum([j \in 1..Len(M) |-> RMul(M[1][j], Cofactor(M, 1, j))], Len(M))

Ok(v) == [ok |-> TRUE, val |-> v]
Raise(e) == [ok |-> FALSE, err |-> e]

\* matrix_inverse(M): adjugate over determinant; fails on a singular matrix
matrix_inverse(M) ==
    LET d == matrix_determinant(M)
    IN  IF d = Zero THEN Raise("SingularMatrixError")
        ELSE Ok(Lists4([i \in I4 |-> [j \in I4 |-> RDiv(Cofactor(M, j, i), d)]]))

(***************************************************************************)
(* Vectors, frames and the canonical matrices of the families              *)
(* (compas.geometry, not part of the source files at hand).                *)
(***************************************************************************)
None == <<>>

Vec(x, y, z) == <<R(x), R(y), R(z)>>

dot_vectors(u, v) == RSum([k \in 1..Len(u) |-> RMul(u[k], v[k])], Len(u))

cross_vectors(u, v) ==
    <<RSub(RMul(u[2], v[3]), RMul(u[3], v[2])),
      RSub(RMul(u[3], v[1]), RMul(u[1], v[3])),
      RSub(RMul(u[1], v[2]), RMul(u[2], v[1]))>>

norm_vector(u) == RSqrt(dot_vectors(u, u))

scale_vector(u, f) == <<RMul(u[1], f), RMul(u[2], f), RMul(u[3], f)>>
add_vectors(u, v) == <<RAdd(u[1], v[1]), RAdd(u[2], v[2]), RAdd(u[3], v[3])>>
subtract_vectors(u, v) == <<RSub(u[1], v[1]), RSub(u[2], v[2]), RSub(u[3], v[3])>>

\* A frame is an origin and two orthonormal axes; its third axis is their
\* cross product.
Frame(point, xaxis, yaxis) == [point |-> point, xaxis |-> xaxis, yaxis |-> yaxis]
zaxis(frame) == cross_vectors(frame.xaxis, frame.yaxis)
worldXY == Frame(Vec(0, 0, 0), Vec(1, 0, 0), Vec(0, 1, 0))

\* a 4x4 matrix from three columns of the linear part and a translation
FromColumns(c1, c2, c3, t) ==
    << <<c1[1], c2[1], c3[1], t[1]>>,
       <<c1[2], c2[2], c3[2], t[2]>>,
       <<c1[3], c2[3], c3[3], t[3]>>,
       <<Zero, Zero, Zero, One>> >>

\* matrix_from_frame(frame): the axes and the origin are the columns
matrix_from_frame(frame) ==
    FromColumns(frame.xaxis, frame.yaxis, zaxis(frame), frame.point)

\* matrix_from_change_of_basis(f1, f2) = inverse(from_frame(f2)) x from_frame(f1)
matrix_from_change_of_basis(f1, f2) ==
    multiply_matrices(matrix_inverse(matrix_from_frame(f2)).val,
                      matrix_from_frame(f1))

\* matrix_from_scale_factors(factors)
matrix_from_scale_factors(f) ==
    [i \in I4 |-> [j \in I4 |->
        IF i # j THEN Zero ELSE IF i = 4 THEN One ELSE f[i]]]

\* matrix_from_translation(vector)
matrix_from_translation(t) ==
    FromColumns(Vec(1, 0, 0), Vec(0, 1, 0), Vec(0, 0, 1), t)

\* matrix_from_shear_entries([xy, xz, yz])
matrix_from_shear_entries(sh) ==
    FromColumns(Vec(1, 0, 0), <<sh[1], One, Zero>>, <<sh[2], sh[3], One>>,
                Vec(0, 0, 0))

\* matrix_from_perspective_entries(p): the perspective vector is the last row
matrix_from_perspective_entries(p) ==
    [i \in I4 |-> IF i = 4 THEN p ELSE identity_matrix[i]]

\* An angle is kept as the point <<cos, sin>> of the unit circle, which is
\* all the rotation matrices read of it.
Angle(c, s) == <<c, s>>
cos(a) == a[1]
sin(a) == a[2]
asin(v) == Angle(RSqrt(RSub(One, RMul(v, v))), v)
atan2(y, x) ==
    IF y = Zero /\ x = Zero THEN Angle(One, Zero)
    ELSE LET n == RSqrt(RAdd(RMul(x, x), RMul(y, y)))
         IN  Angle(RDiv(x, n), RDiv(y, n))

Rx(a) == FromColumns(Vec(1, 0, 0), <<Zero, cos(a), sin(a)>>,
                     <<Zero, RNeg(sin(a)), cos(a)>>, Vec(0, 0, 0))
Ry(a) == FromColumns(<<cos(a), Zero, RNeg(sin(a))>>, Vec(0, 1, 0),
                     <<sin(a), Zero, cos(a)>>, Vec(0, 0, 0))
Rz(a) == FromColumns(<<cos(a), sin(a), Zero>>, <<RNeg(sin(a)), cos(a), Zero>>,
                     Vec(0, 0, 1), Vec(0, 0, 0))

\* matrix_from_euler_angles(angles, static=True, axes='xyz'): about the
\* fixed x axis first, then y, then z
matrix_from_euler_angles(a) ==
    multiply_matrices(Rz(a[3]), multiply_matrices(Ry(a[2]), Rx(a[1])))

\* translation_from_matrix(M)
translation_from_matrix(M) == <<M[1][4], M[2][4], M[3][4]>>

\* flatten(list of lists)
RECURSIVE flatten(_)
flatten(M) == IF M = <<>> THEN <<>> ELSE Head(M) \o flatten(Tail(M))

\* the tolerance of allclose, 1e-05
AllcloseTolDen == 100000

\* fabs(a - b) > tol
Differ(a, b, tol) == RGt(RAbs(RSub(a, b)), tol)

\* allclose(l1, l2, tol=1e-05): no pair of the zipped lists differs by more
Min(a, b) == IF a < b THEN a ELSE b
allclose(l1, l2) ==
    \A k \in 1..Min(Len(l1), Len(l2)) : ~Differ(l1[k], l2[k], <<1, AllcloseTolDen>>)

\* the homogeneous vector h under matrix M
transform_homogeneous(M, h) ==
    List4([i \in I4 |-> RSum([k \in I4 |-> RMul(M[i][k], h[k])], 4)])

homogenize(p) == <<p[1], p[2], p[3], One>>
dehomogenize(q) == <<RDiv(q[1], q[4]), RDiv(q[2], q[4]), RDiv(q[3], q[4])>>

\* transform_points: the image of the point p under matrix M
transform_point(M, p) == dehomogenize(transform_homogeneous(M, homogenize(p)))

(***************************************************************************)
(* The decomposition engine: decompose_matrix(M) returns scale, shear,     *)
(* Euler angles (static xyz), translation and perspective.  The vectors    *)
(* r0, r1, r2 are the basis vectors of the linear part, i.e. the rows of   *)
(* the transposed matrix: the reading under which the engine's round trip  *)
(* Translation o Rotation o Shear o Scale reproduces M.  Each step hands   *)
(* what it computed to the next.                                           *)
(***************************************************************************)
Components(scale, shear, angles, translation, perspective) ==
    [scale |-> scale, shear |-> shear, angles |-> angles,
     translation |-> translation, perspective |-> perspective]

LastRow == <<Zero, Zero, Zero, One>>

\* step 1: the perspective vector
Perspective(M) ==
    IF \E j \in I4 : Differ(M[4][j], LastRow[j], <<1, AllcloseTolDen>>)
    THEN IF M[4][4] # Zero THEN [j \in I4 |-> RDiv(M[4][j], M[4][4])] ELSE M[4]
    ELSE LastRow

\* step 8: static xyz Euler angles of the orthonormal r0, r1, r2, ay the
\* angle about y; the second branch is the gimbal lock
EulerAngles(r0, r1, r2, ay) ==
    IF cos(ay) # Zero
    THEN <<atan2(r1[3], r2[3]), ay, atan2(r0[2], r0[1])>>
    ELSE <<atan2(RNeg(r2[2]), r1[2]), ay, Angle(One, Zero)>>

\* step 7: a left-handed basis negates scale.x and r0
Step7(M, n0, n1, n2, sx, sy, sz, shear, flip) ==
    Ok(Components(IF flip THEN <<RNeg(sx), sy, sz>> ELSE <<sx, sy, sz>>,
                  shear,
                  IF flip
                  THEN EulerAngles(scale_vector(n0, R(-1)), n1, n2, asin(n0[3]))
                  ELSE EulerAngles(n0, n1, n2, asin(RNeg(n0[3]))),
                  translation_from_matrix(M),
                  Perspective(M)))

Step6c(M, n0, n1, o2, sx, sy, sz, shear) ==
    IF sz = Zero THEN Raise("SingularMatrixError")
    ELSE Step7(M, n0, n1, scale_vector(o2, RDiv(One, sz)), sx, sy, sz, shear,
               RLt(dot_vectors(n0, cross_vectors(n1, scale_vector(o2, RDiv(One, sz)))),
                   Zero))

Step6b(M, n0, n1, r2, sx, sy, shxy, shxz, shyz) ==
    Step6c(M, n0, n1,
           subtract_vectors(subtract_vectors(r2, scale_vector(n0, shxz)),
                            scale_vector(n1, shyz)),
           sx, sy,
           norm_vector(subtract_vectors(subtract_vectors(r2, scale_vector(n0, shxz)),
                                        scale_vector(n1, shyz))),
           <<shxy, shxz, shyz>>)

\* step 6: shear.xz, shear.yz, then r2 orthogonalized and normalized
Step6(M, n0, n1, r2, sx, sy, shxy) ==
    Step6b(M, n0, n1, r2, sx, sy, shxy, dot_vectors(n0, r2), dot_vectors(n1, r2))

Step5c(M, n0, o1, r2, sx, sy, shxy) ==
    IF sy = Zero THEN Raise("SingularMatrixError")
    ELSE Step6(M, n0, scale_vector(o1, RDiv(One, sy)), r2, sx, sy, shxy)

Step5b(M, n0, r1, r2, sx, shxy) ==
    Step5c(M, n0, subtract_vectors(r1, scale_vector(n0, shxy)), r2, sx,
           norm_vector(subtract_vectors(r1, scale_vector(n0, shxy))), shxy)

\* step 5: shear.xy, then r1 orthogonalized and normalized
Step5(M, n0, r1, r2, sx) == Step5b(M, n0, r1, r2, sx, dot_vectors(n0, r1))

\* step 4: scale.x, r0 normalized
Step4(M, r0, r1, r2, sx) ==
    IF sx = Zero THEN Raise("SingularMatrixError")
    ELSE Step5(M, scale_vector(r0, RDiv(One, sx)), r1, r2, sx)

decompose_matrix(M) ==
    Step4(M, <<M[1][1], M[2][1], M[3][1]>>, <<M[1][2], M[2][2], M[3][2]>>,
          <<M[1][3], M[2][3], M[3][3]>>, norm_vector(<<M[1][1], M[2][1], M[3][1]>>))

(***************************************************************************)
(* Transformation and Scale, on values: an instance is [cls, matrix],      *)
(* matrix a sequence of rows or None.  A call yields Ok(value) or          *)
(* Raise(exception).                                                       *)
(***************************************************************************)
\* class Scale(Transformation); the other families derive from it likewise
isinstance(objcls, cls) == cls = "Transformation" \/ objcls = cls

\* Transformation.__init__(matrix=None)
Transformation_init(cls, matrix) == Ok([cls |-> cls, matrix |-> matrix])

\* Scale.__init__ once the matrix is decomposed: the check against the
\* canonical scale matrix
ScaleCheck(matrix, d) ==
    IF ~d.ok THEN d
    ELSE IF ~allclose(flatten(matrix), flatten(matrix_from_scale_factors(d.val.scale)))
    THEN Raise("ValueError")
    ELSE Transformation_init("Scale", matrix)

\* Scale.__init__ without its check
Scale_init_unchecked(matrix) == Transformation_init("Scale", matrix)

\* Scale.__init__(matrix=None); `if matrix:` is false of None and of []
Scale_init(matrix) ==
    IF matrix # None
    THEN ScaleCheck(matrix, decompose_matrix(matrix))
    ELSE Transformation_init("Scale", matrix)

\* cls(matrix): the constructor of the class
Instantiate(cls, matrix) ==
    IF cls = "Scale" THEN Scale_init(matrix) ELSE Transformation_init(cls, matrix)

\* cls(matrix), matrix the outcome of a computation that may have raised
InstantiateFrom(cls, m) == IF m.ok THEN Instantiate(cls, m.val) ELSE m

\* the tolerance of Transformation.__eq__, tol=1e-05
EqTolDen == 100000

\* one pass of the inner loop of __eq__, at A[i][j] and B[i][j]: it goes on
\* ("next"), returns False ("differ") or raises
EqCell(A, B, i, j) ==
    IF A = None \/ B = None THEN "TypeError"
    ELSE IF i > Len(A) \/ i > Len(B) THEN "IndexError"
    ELSE IF j > Len(A[i]) \/ j > Len(B[i]) THEN "IndexError"
    ELSE IF Differ(A[i][j], B[i][j], <<1, EqTolDen>>) THEN "differ"
    ELSE "next"

\* the k-th pass of the loops over range(4) x range(4)
EqPass(A, B, k) == EqCell(A, B, ((k - 1) \div 4) + 1, ((k - 1) % 4) + 1)

\* the outcome of the loops that stop at the first of the passes in stops
EqStop(A, B, stops) ==
    IF stops = {} THEN Ok(TRUE)
    ELSE IF EqPass(A, B, CHOOSE k \in stops : \A m \in stops : k <= m) = "differ"
    THEN Ok(FALSE)
    ELSE Raise(EqPass(A, B, CHOOSE k \in stops : \A m \in stops : k <= m))

\* the body of the try block of __eq__
EqLoop(A, B) == EqStop(A, B, { k \in 1..16 : EqPass(A, B, k) # "next" })

EqTry(self, other) ==
    IF "matrix" \notin DOMAIN other THEN Raise("AttributeError")
    ELSE EqLoop(self.matrix, other.matrix)

\* except BaseException: return False
EqExcept(r) == IF r.ok THEN r.val ELSE FALSE

\* Transformation.__eq__(self, other, tol=1e-05)
eq(self, other) == EqExcept(EqTry(self, other))

\* float(x) of a Python int
float(n) == R(n)

\* Transformation.from_list(numbers)
from_list(cls, numbers) ==
    IF \E k \in 1..16 : k > Len(numbers) THEN Raise("IndexError")
    ELSE Instantiate(cls, [i \in I4 |-> [j \in I4 |->
                              float(numbers[(i - 1) * 4 + (j - 1) + 1])]])

\* Transformation.from_frame(frame)
from_frame(cls, frame) == Instantiate(cls, matrix_from_frame(frame))

\* multiply_matrices on the outcomes of two computations
ProductOf(a, b) ==
    IF ~a.ok THEN a ELSE IF ~b.ok THEN b ELSE Ok(multiply_matrices(a.val, b.val))

\* self.matrix of a constructed instance
MatrixOf(t) == IF t.ok THEN Ok(t.val.matrix) ELSE t

\* matrix_inverse of the outcome of a computation
InverseOf(m) == IF m.ok THEN matrix_inverse(m.val) ELSE m

\* Transformation.from_frame_to_frame(frame_from, frame_to)
from_frame_to_frame(cls, frame_from, frame_to) ==
    InstantiateFrom(cls,
        ProductOf(MatrixOf(from_frame(cls, frame_to)),
                  InverseOf(MatrixOf(from_frame(cls, frame_from)))))

\* change_basis with the factors in the other order
change_basis_swapped(cls, frame_from, frame_to) ==
    InstantiateFrom(cls,
        ProductOf(MatrixOf(from_frame(cls, frame_from)),
                  InverseOf(MatrixOf(from_frame(cls, frame_to)))))

\* Transformation.change_basis(frame_from, frame_to)
change_basis(cls, frame_from, frame_to) ==
    InstantiateFrom(cls,
        ProductOf(InverseOf(MatrixOf(from_frame(cls, frame_to))),
                  MatrixOf(from_frame(cls, frame_from))))

\* multiply_matrices on what the attributes hold: None has no rows
Product(A, B) ==
    IF A = None \/ B = None THEN Raise("TypeError")
    ELSE Ok(multiply_matrices(A, B))

\* Transformation.concatenate(other): the new value of self.matrix
concatenate(self, other) == Product(self.matrix, other.matrix)

\* Transformation.concatenated(other), also __mul__ and __imul__
concatenated(self, other) ==
    IF isinstance(other.cls, self.cls)
    THEN InstantiateFrom(self.cls, Product(self.matrix, other.matrix))
    ELSE InstantiateFrom("Transformation", Product(self.matrix, other.matrix))

\* Transformation.transpose(): the new value of self.matrix
transpose(self) ==
    IF self.matrix = None THEN Raise("TypeError")
    ELSE Ok(transpose_matrix(self.matrix))

\* Transformation.invert(): the new value of self.matrix
invert(self) ==
    IF self.matrix = None THEN Raise("TypeError")
    ELSE matrix_inverse(self.matrix)

NoFrame == [absent |-> TRUE]

\* S.matrix = matrix on the instance S = cls()
WithMatrix(S, matrix) == IF S.ok THEN Ok([S.val EXCEPT !.matrix = matrix]) ELSE S

\* from_factors with the two changes of basis exchanged
from_factors_swapped(cls, factors, frame) ==
    IF "point" \in DOMAIN frame
    THEN WithMatrix(Instantiate(cls, None),
             multiply_matrices(
                 multiply_matrices(matrix_from_change_of_basis(worldXY, frame),
                                   matrix_from_scale_factors(factors)),
                 matrix_from_change_of_basis(frame, worldXY)))
    ELSE WithMatrix(Instantiate(cls, None), matrix_from_scale_factors(factors))

\* Scale.from_factors(factors, frame=None)
from_factors(cls, factors, frame) ==
    IF "point" \in DOMAIN frame
    THEN WithMatrix(Instantiate(cls, None),
             multiply_matrices(
                 multiply_matrices(matrix_from_change_of_basis(frame, worldXY),
                                   matrix_from_scale_factors(factors)),
                 matrix_from_change_of_basis(worldXY, frame)))
    ELSE WithMatrix(Instantiate(cls, None), matrix_from_scale_factors(factors))

\* the factories of the other families: the canonical matrix of the parameters
Shear_from_entries(sh) == [cls |-> "Shear", matrix |-> matrix_from_shear_entries(sh)]
Rotation_from_euler_angles(a) ==
    [cls |-> "Rotation", matrix |-> matrix_from_euler_angles(a)]
Translation_from_vector(t) ==
    [cls |-> "Translation", matrix |-> matrix_from_translation(t)]
Projection_from_entries(p) ==
    [cls |-> "Projection", matrix |-> matrix_from_perspective_entries(p)]

\* decomposed() once the matrix is decomposed: the five instances
Families(d) ==
    IF ~d.ok THEN d
    ELSE Ok(<<from_factors("Scale", d.val.scale, NoFrame).val,
              Shear_from_entries(d.val.shear),
              Rotation_from_euler_angles(d.val.angles),
              Translation_from_vector(d.val.translation),
              Projection_from_entries(d.val.perspective)>>)

\* decomposed with scale and shear of the decomposition exchanged
FamiliesMisordered(d) ==
    IF ~d.ok THEN d
    ELSE Ok(<<from_factors("Scale", d.val.shear, NoFrame).val,
              Shear_from_entries(d.val.scale),
              Rotation_from_euler_angles(d.val.angles),
              Translation_from_vector(d.val.translation),
              Projection_from_entries(d.val.perspective)>>)
decomposed_misordered(self) ==
    IF self.matrix = None THEN Raise("TypeError")
    ELSE FamiliesMisordered(decompose_matrix(self.matrix))

\* Transformation.decomposed(): (Sc, Sh, R, T, P)
decomposed(self) ==
    IF self.matrix = None THEN Raise("TypeError")
    ELSE Families(decompose_matrix(self.matrix))

(***************************************************************************)
(* The heap.  An instance holds a reference to an outer list (0: None),    *)
(* an outer list holds references to row lists, a row list holds numbers.  *)
(* `copied` is history: the instance copy() was called on (0: none);       *)
(* `shared` is history: the instance whose list the constructor was given  *)
(* (0: none).                                                              *)
(* A heap operation yields Ok([h, ref]), the new heap and the instance it  *)
(* returns (0: none), or Raise(exception) with the heap as it was.         *)
(***************************************************************************)
Heap == [objs |-> objs, outer |-> outer, rows |-> rows]

\* the matrix an outer list denotes
ListVal(h, m) ==
    IF m = 0 THEN None
    ELSE [i \in 1..Len(h.outer[m]) |-> h.rows[h.outer[m][i]]]

\* self.matrix, read through the references
Val(h, o) == ListVal(h, h.objs[o].matrix)

\* the instance as a value
Obj(h, o) == [cls |-> h.objs[o].cls, matrix |-> Val(h, o)]

\* a new instance of cls holding the reference ref
AllocObj(h, cls, ref, from) ==
    [h |-> [h EXCEPT !.objs = Append(h.objs,
                         [cls |-> cls, matrix |-> ref, copied |-> from,
                          shared |-> 0])],
     ref |-> Len(h.objs) + 1]

\* a new list of lists holding M
AllocMatrix(h, M) ==
    [h EXCEPT !.rows = h.rows \o M,
              !.outer = Append(h.outer, [i \in 1..Len(M) |-> Len(h.rows) + i])]

\* an instance returned by a constructor or factory, holding a list of
\* lists of its own (or None)
Store(h, r) ==
    IF ~r.ok THEN r
    ELSE IF r.val.matrix = None THEN Ok(AllocObj(h, r.val.cls, 0, 0))
    ELSE Ok(AllocObj(AllocMatrix(h, r.val.matrix), r.val.cls, Len(h.outer) + 1, 0))

\* self.matrix = r, r the outcome of a computation returning a new matrix
Assign(h, o, r) ==
    IF ~r.ok THEN r
    ELSE Ok([h |-> [AllocMatrix(h, r.val) EXCEPT !.objs[o].matrix = Len(h.outer) + 1],
             ref |-> 0])

\* Transformation.translation: translation_from_matrix(self.matrix)
translation(self) ==
    IF self.matrix = None THEN Raise("TypeError")
    ELSE Ok(translation_from_matrix(self.matrix))

\* Transformation.scale: the diagonal of the upper 3x3 block of self.matrix
scale(self) ==
    IF self.matrix = None THEN Raise("TypeError")
    ELSE Ok(<<self.matrix[1][1], self.matrix[2][2], self.matrix[3][3]>>)

\* Transformation.list read down the columns instead of along the rows
list_by_columns(self) ==
    IF self.matrix = None THEN Raise("TypeError")
    ELSE Ok(flatten(transpose_matrix(self.matrix)))

\* Transformation.list: [a for c in self.matrix for a in c]
list(self) ==
    IF self.matrix = None THEN Raise("TypeError")
    ELSE Ok(flatten(self.matrix))

\* list.copy() of an outer list: a new outer list of the same row lists
ListCopy(h, m) == [h EXCEPT !.outer = Append(h.outer, h.outer[m])]

\* cls(copy) for the list copy at reference ref, made from instance o
CopyInit(h, o, ref, r) ==
    IF ~r.ok THEN r ELSE Ok(AllocObj(h, r.val.cls, ref, o))

\* Transformation.copy(): cls(self.matrix.copy())
copy(h, o) ==
    IF h.objs[o].matrix = 0 THEN Raise("AttributeError")
    ELSE CopyInit(ListCopy(h, h.objs[o].matrix), o, Len(h.outer) + 1,
                  Instantiate(h.objs[o].cls, Val(h, o)))

\* Transformation.__setitem__((i, j), value): self.matrix[i][j] = value
setitem(h, o, i, j, v) ==
    IF h.objs[o].matrix = 0 THEN Raise("TypeError")
    ELSE Ok([h |-> [h EXCEPT !.rows[h.outer[h.objs[o].matrix][i + 1]][j + 1] = v],
             ref |-> 0])

\* Transformation.to_data(): {'matrix': self.matrix}, the list itself
to_data(h, o) == [matrix |-> h.objs[o].matrix]

\* cls(matrix) on a list the caller holds, the one instance o holds:
\* self.matrix = matrix stores the reference
InitShared(h, o, ref, r) ==
    IF ~r.ok THEN r
    ELSE Ok([h |-> [h EXCEPT !.objs = Append(h.objs,
                        [cls |-> r.val.cls, matrix |-> ref, copied |-> 0,
                         shared |-> o])],
             ref |-> Len(h.objs) + 1])

\* Transformation.from_matrix(matrix): cls(matrix), matrix the list of o
from_matrix(h, cls, o) ==
    InitShared(h, o, h.objs[o].matrix, Instantiate(cls, Val(h, o)))

\* Transformation.from_data(data): cls(data['matrix']), data from o
from_data(h, cls, o, data) ==
    InitShared(h, o, data.matrix, Instantiate(cls, ListVal(h, data.matrix)))

\* d['matrix'][i][j] = v on the dictionary d
setdata(h, d, i, j, v) ==
    IF d.matrix = 0 THEN Raise("TypeError")
    ELSE Ok([h |-> [h EXCEPT !.rows[h.outer[d.matrix][i + 1]][j + 1] = v],
             ref |-> 0])

\* the instance returned, after a mutation of it
Returning(ref, r) == IF r.ok THEN Ok([r.val EXCEPT !.ref = ref]) ELSE r

\* T.transpose() on the copy T
TransposeCopy(c) ==
    IF ~c.ok THEN c
    ELSE Returning(c.val.ref,
                   Assign(c.val.h, c.val.ref, transpose(Obj(c.val.h, c.val.ref))))

\* Transformation.transposed(): T = self.copy(); T.transpose(); return T
transposed(h, o) == TransposeCopy(copy(h, o))

\* T.invert() on the copy T
InvertCopy(c) ==
    IF ~c.ok THEN c
    ELSE Returning(c.val.ref,
                   Assign(c.val.h, c.val.ref, invert(Obj(c.val.h, c.val.ref))))

\* Transformation.inverse(): T = self.copy(); T.invert(); return T
inverse(h, o) == InvertCopy(copy(h, o))

(***************************************************************************)
(* The instances as a state machine: a client that constructs, copies and  *)
(* mutates transformations.                                                *)
(***************************************************************************)
MaxObjs == 3
MaxSteps == 3

\* matrices a client passes to Transformation(matrix)
MatrixPool ==
    { matrix_from_translation(Vec(1, 2, 3)),
      matrix_from_scale_factors(<<R(2), R(1), R(1)>>),
      Rz(Angle(Zero, One)) }

\* the arguments of Scale.from_factors
FactorPool == { <<R(2), R(2), R(2)>> }
FramePool == { NoFrame, Frame(Vec(2, 5, 0), Vec(1, 0, 0), Vec(0, 1, 0)) }

\* the classes a client constructs without arguments
Classes == { "Transformation", "Scale" }

\* the arguments of d['matrix'][i][j] = v
DataCells == { <<2, 3>> }
DataVals == { R(7) }

\* the arguments of T[i, j] = v
SetCells == { <<0, 0>>, <<1, 3>> }
SetVals == { R(0), R(5) }

Ids == 1..Len(objs)

\* the matrices of all instances, as values
Snapshot == [o \in Ids |-> Val(Heap, o)]

\* the operation op(self, other) ended with outcome r
Finish(op, self, other, r) ==
    /\ objs' = IF r.ok THEN r.val.h.objs ELSE objs
    /\ outer' = IF r.ok THEN r.val.h.outer ELSE outer
    /\ rows' = IF r.ok THEN r.val.h.rows ELSE rows
    /\ last' = [op |-> op, self |-> self, other |-> other, ok |-> r.ok,
                err |-> IF r.ok THEN "" ELSE r.err,
                res |-> IF r.ok THEN r.val.ref ELSE 0,
                pre |-> Snapshot]
    /\ steps' = steps + 1
    /\ UNCHANGED <<call, ret, pc>>

CanStep == pc = "heap" /\ steps < MaxSteps
CanAlloc == CanStep /\ Len(objs) < MaxObjs

\* T = Transformation(m), m a matrix literal
New(m) ==
    /\ CanAlloc
    /\ Finish("new", 0, 0, Store(Heap, Instantiate("Transformation", m)))

\* T = Transformation(), S = Scale()
NewDefault(cls) ==
    /\ CanAlloc
    /\ Finish("default", 0, 0, Store(Heap, Instantiate(cls, None)))

\* T2 = Transformation.from_matrix(m), m the list T was constructed from
FromMatrix(o) ==
    /\ CanAlloc
    /\ Finish("from_matrix", 0, o, from_matrix(Heap, "Transformation", o))

\* T2 = Transformation.from_data(T.to_data())
FromData(o) ==
    /\ CanAlloc
    /\ Finish("from_data", 0, o,
              from_data(Heap, "Transformation", o, to_data(Heap, o)))

\* d = T.to_data(); d['matrix'][i][j] = v
SetData(o, i, j, v) ==
    /\ CanStep
    /\ Finish("setdata", 0, o, setdata(Heap, to_data(Heap, o), i, j, v))

\* S = Scale.from_factors(factors, frame)
FromFactors(f, fr) ==
    /\ CanAlloc
    /\ Finish("from_factors", 0, 0, Store(Heap, from_factors("Scale", f, fr)))

\* C = T.copy()
Copy(o) ==
    /\ CanAlloc
    /\ Finish("copy", o, 0, copy(Heap, o))

\* T[i, j] = v
SetItem(o, i, j, v) ==
    /\ CanStep
    /\ Finish("setitem", o, 0, setitem(Heap, o, i, j, v))

\* T.transpose()
Transpose(o) ==
    /\ CanStep
    /\ Finish("transpose", o, 0, Assign(Heap, o, transpose(Obj(Heap, o))))

\* T.invert()
Invert(o) ==
    /\ CanStep
    /\ Finish("invert", o, 0, Assign(Heap, o, invert(Obj(Heap, o))))

\* T.concatenate(X)
Concatenate(o, x) ==
    /\ CanStep
    /\ Finish("concatenate", o, x,
              Assign(Heap, o, concatenate(Obj(Heap, o), Obj(Heap, x))))

\* T.concatenated(X), T * X
Concatenated(o, x) ==
    /\ CanAlloc
    /\ Finish("concatenated", o, x,
              Store(Heap, concatenated(Obj(Heap, o), Obj(Heap, x))))

\* T.transposed()
Transposed(o) ==
    /\ CanAlloc
    /\ Finish("transposed", o, 0, transposed(Heap, o))

\* T.inverse()
Inverse(o) ==
    /\ CanAlloc
    /\ Finish("inverse", o, 0, inverse(Heap, o))

Init ==
    /\ objs = <<>>
    /\ outer = <<>>
    /\ rows = <<>>
    /\ last = [op |-> "init", self |-> 0, other |-> 0, ok |-> TRUE, err |-> "",
               res |-> 0, pre |-> <<>>]
    /\ steps = 0
    /\ call = <<>>
    /\ ret = <<>>
    /\ pc = "heap"

Next ==
    \/ \E m \in MatrixPool : New(m)
    \/ \E cls \in Classes : NewDefault(cls)
    \/ \E o \in Ids : FromMatrix(o)
    \/ \E o \in Ids : FromData(o)
    \/ \E o \in Ids, c \in DataCells, v \in DataVals : SetData(o, c[1], c[2], v)
    \/ \E f \in FactorPool, fr \in FramePool : FromFactors(f, fr)
    \/ \E o \in Ids : Copy(o)
    \/ \E o \in Ids, c \in SetCells, v \in SetVals : SetItem(o, c[1], c[2], v)
    \/ \E o \in Ids : Transpose(o)
    \/ \E o \in Ids : Invert(o)
    \/ \E o, x \in Ids : Concatenate(o, x)
    \/ \E o, x \in Ids : Concatenated(o, x)
    \/ \E o \in Ids : Transposed(o)
    \/ \E o \in Ids : Inverse(o)

Spec == Init /\ [][Next]_vars

(***************************************************************************)
(* The factories and pure methods, one call at a time: the initial state   *)
(* draws a call and its arguments, the action performs it.                 *)
(***************************************************************************)
\* a value below the tolerance of the comparisons
Eps == <<1, 200000>>

Quarter == { Angle(One, Zero), Angle(Zero, One), Angle(R(-1), Zero), Angle(Zero, R(-1)) }
\* an angle that is no multiple of a quarter turn: cos 3/5, sin 4/5
Oblique == Angle(Rat(3, 5), Rat(4, 5))
NoTurn == <<Angle(One, Zero), Angle(One, Zero), Angle(One, Zero)>>

\* Euler angle triples, at most one of them oblique
AngleTriples ==
    { a \in (Quarter \cup {Oblique}) \X (Quarter \cup {Oblique}) \X (Quarter \cup {Oblique}) :
        Cardinality({k \in I3 : a[k] = Oblique}) <= 1 }

\* M = (Translation.from_vector(t) * Rotation.from_euler_angles(a)) * Scale.from_factors(s)
ConcatenatedOf(r, other) == IF r.ok THEN concatenated(r.val, other) ELSE r
Composed(t, a, s) ==
    ConcatenatedOf(concatenated(Translation_from_vector(t), Rotation_from_euler_angles(a)),
                   from_factors("Scale", s, NoFrame).val)
DecomposedOf(r) == IF r.ok THEN decomposed(r.val) ELSE r

DecomposedCalls ==
    [op : {"decomposed"},
     t : { Vec(1, 2, 3), <<Rat(-1, 2), Zero, R(4)>> },
     a : AngleTriples,
     s : { <<R(1), R(2), R(3)>>, <<Rat(1, 2), R(2), Rat(1, 2)>> }]

\* matrices handed to Scale(matrix): translation o rotation o shear o scale
\* of small parameters, some of them below the tolerance
ScaleMatrix(t, a, h, s) ==
    multiply_matrices(
        multiply_matrices(matrix_from_translation(t), matrix_from_euler_angles(a)),
        multiply_matrices(matrix_from_shear_entries(h), matrix_from_scale_factors(s)))

ScaleCalls ==
    [op : {"Scale"},
     t : { Vec(0, 0, 0), Vec(1, 2, 3), <<Eps, Zero, Zero>> },
     a : { NoTurn,
           <<Angle(One, Zero), Angle(One, Zero), Angle(Zero, One)>>,
           <<Angle(R(-1), Zero), Angle(One, Zero), Angle(One, Zero)>>,
           <<Angle(R(-1), Zero), Angle(R(-1), Zero), Angle(R(-1), Zero)>>,
           <<Angle(One, Zero), Oblique, Angle(One, Zero)>> },
     h : { Vec(0, 0, 0), Vec(1, 0, 0), <<Zero, Zero, R(2)>>, <<Zero, Eps, Zero>> },
     s : { <<R(1), R(1), R(1)>>, <<R(2), R(3), Rat(1, 2)>>, <<R(-1), R(1), R(1)>>,
           <<R(0), R(1), R(1)>> }]

\* frames: an origin and orthonormal axes, world-aligned, turned and oblique
FramePoints == { Vec(0, 0, 0), Vec(2, 5, 0) }
FrameAxes ==
    { <<Vec(1, 0, 0), Vec(0, 1, 0)>>,
      <<Vec(0, 1, 0), Vec(-1, 0, 0)>>,
      <<Vec(0, 0, 1), Vec(1, 0, 0)>>,
      <<<<Rat(3, 5), Rat(4, 5), Zero>>, <<Rat(-4, 5), Rat(3, 5), Zero>>>> }
Frames == { Frame(p, ax[1], ax[2]) : p \in FramePoints, ax \in FrameAxes }

FromFactorsCalls ==
    [op : {"from_factors"},
     factors : { <<R(2), R(2), R(2)>>, <<R(1), R(2), R(3)>>, <<Rat(1, 2), R(-1), R(4)>> },
     frame : Frames,
     local : { Vec(0, 0, 0), Vec(0, 5, 0), Vec(1, 2, 3) }]

FramesCalls == [op : {"frames"}, from : Frames, to : Frames]

\* lists handed to from_list: a list of 16 numbers cut or extended
MaxExtra == 2
Numbers16 ==
    { <<1, 0, 0, 3, 0, 1, 0, 4, 0, 0, 1, 5, 0, 0, 0, 1>>,
      <<2, 0, 0, 0, 0, 0, -1, 7, 0, 1, 0, 0, 0, 0, 0, 1>>,
      <<1, 2, 3, 4, 5, 6, 7, 8, 9, 10, 11, 12, 13, 14, 15, 16>> }
Padding == { 0, 9 }
Resized(l, n, pad) == [k \in 1..n |-> IF k <= Len(l) THEN l[k] ELSE pad]
FromListCalls ==
    { [op |-> "from_list", numbers |-> Resized(l, n, pad)] :
        l \in Numbers16, n \in (16 - MaxExtra)..(16 + MaxExtra), pad \in Padding }

\* values compared with a Transformation: instances with a matrix of any
\* shape or with None, and values that have no matrix at all
MaxDim == 5
EqMatrix == ScaleMatrix(Vec(1, 2, 3), NoTurn, Vec(0, 0, 0), <<R(2), R(3), Rat(1, 2)>>)
\* M cut or extended to n rows of m columns, new cells holding pad
Reshaped(M, n, m, pad) ==
    [i \in 1..n |-> [j \in 1..m |->
        IF i <= Len(M) /\ j <= Len(M[i]) THEN M[i][j] ELSE pad]]
\* M with delta added to cell (i, j)
Nudged(M, i, j, delta) == [M EXCEPT ![i][j] = RAdd(M[i][j], delta)]
EqOthers ==
    { [cls |-> "Transformation",
       matrix |-> Nudged(Reshaped(EqMatrix, n, m, Zero), c[1], c[2], delta)] :
        n \in 3..MaxDim, m \in 3..MaxDim, c \in { <<1, 1>>, <<3, 2>> },
        delta \in { Zero, Eps, RNeg(Eps), <<1, 50000>>, One } }
    \cup { [cls |-> "Transformation", matrix |-> None] }
EqCalls ==
    [op : {"eq"},
     self : { [cls |-> "Transformation", matrix |-> EqMatrix],
              [cls |-> "Transformation", matrix |-> None] },
     other : EqOthers]
    \cup [op : {"eq"},
          self : { [cls |-> "Transformation", matrix |-> EqMatrix] },
          other : { [cls |-> "int"], [cls |-> "NoneType"] }]

CallInit(calls) ==
    /\ objs = <<>>
    /\ outer = <<>>
    /\ rows = <<>>
    /\ last = [op |-> "init", self |-> 0, other |-> 0, ok |-> TRUE, err |-> "",
               res |-> 0, pre |-> <<>>]
    /\ steps = 0
    /\ call \in calls
    /\ ret = <<>>
    /\ pc = "call"

Return(r) ==
    /\ pc = "call"
    /\ ret' = r
    /\ pc' = "done"
    /\ UNCHANGED <<objs, outer, rows, last, steps, call>>

\* M.decomposed() of the composed M
DoDecomposed ==
    /\ call.op = "decomposed"
    /\ Return(DecomposedOf(Composed(call.t, call.a, call.s)))

\* Scale(matrix)
DoScale ==
    /\ call.op = "Scale"
    /\ Return(Instantiate("Scale", ScaleMatrix(call.t, call.a, call.h, call.s)))

\* Scale.from_factors(factors, frame)
DoFromFactors ==
    /\ call.op = "from_factors"
    /\ Return(from_factors("Scale", call.factors, call.frame))

\* Transformation.from_frame_to_frame(A, B) and Transformation.change_basis(A, B)
DoFrames ==
    /\ call.op = "frames"
    /\ Return([from_frame_to_frame |->
                   from_frame_to_frame("Transformation", call.from, call.to),
               change_basis |-> change_basis("Transformation", call.from, call.to)])

\* Transformation.from_list(numbers)
DoFromList ==
    /\ call.op = "from_list"
    /\ Return(from_list("Transformation", call.numbers))

\* T == other
DoEq ==
    /\ call.op = "eq"
    /\ Return(Ok(eq(call.self, call.other)))

InitCalls ==
    \/ CallInit(DecomposedCalls)
    \/ CallInit(ScaleCalls)
    \/ CallInit(FromFactorsCalls)
    \/ CallInit(FramesCalls)
    \/ CallInit(FromListCalls)
    \/ CallInit(EqCalls)

NextCalls ==
    \/ DoDecomposed
    \/ DoScale
    \/ DoFromFactors
    \/ DoFrames
    \/ DoFromList
    \/ DoEq

SpecCalls == InitCalls /\ [][NextCalls]_vars

(***************************************************************************)
(* Properties of the instances (specification Spec).                       *)
(***************************************************************************)
Mutators == {"setitem", "transpose", "invert", "concatenate"}

\* a and b are an instance and the copy() made of it
CopyPair(a, b) == objs[a].copied = b \/ objs[b].copied = a

\* points the transformations are applied to
PointPool == { Vec(0, 0, 0), Vec(1, 2, 3), Vec(2, 10, 0) }

IdentityT == [cls |-> "Transformation", matrix |-> identity_matrix]

\* C1: copy() produces an independent backing matrix: an in-place mutation
\* (T[i, j] = v, transpose, invert, concatenate) of an instance leaves every
\* element of its copy, and of the instance it is a copy of, unchanged.
C1_CopyIsIndependent ==
    (last.op \in Mutators /\ last.ok) =>
        \A o \in Ids :
            (o # last.self /\ CopyPair(o, last.self)) => Val(Heap, o) = last.pre[o]

\* the outcome of a concatenation: the matrix of the result of
\* A.concatenated(B), of A after A.concatenate(B)
Concatenation ==
    IF last.op = "concatenated" THEN Val(Heap, last.res) ELSE Val(Heap, last.self)

\* C is A x B, and maps every point x to A(B(x))
AppliesOtherFirst(C, A, B) ==
    /\ C = multiply_matrices(A, B)
    /\ \A x \in PointPool :
          transform_homogeneous(C, homogenize(x))
            = transform_homogeneous(A, transform_homogeneous(B, homogenize(x)))

\* C2: concatenation is self o other, other applied first: for all instances
\* A and B holding a matrix, A.concatenated(B) (and A * B) has the matrix
\* A.matrix x B.matrix, after A.concatenate(B) the matrix of A is the product
\* of its previous matrix and B.matrix, and the result maps a point x to
\* A(B(x)).
C2_ConcatenationOrder ==
    (/\ last.op \in {"concatenated", "concatenate"}
     /\ last.pre[last.self] # None
     /\ last.pre[last.other] # None)
    => /\ last.ok
       /\ AppliesOtherFirst(Concatenation, last.pre[last.self], last.pre[last.other])

\* C2 on the calls that return: whenever A.concatenated(B) or
\* A.concatenate(B) returns, the outcome is A.matrix x B.matrix, other applied
\* first; and it returns whenever A is of class Transformation itself or is
\* concatenated in place.
C2_OrderWhenReturned ==
    (/\ last.op \in {"concatenated", "concatenate"}
     /\ last.pre[last.self] # None
     /\ last.pre[last.other] # None)
    => /\ last.ok =>
            AppliesOtherFirst(Concatenation, last.pre[last.self], last.pre[last.other])
       /\ (objs[last.self].cls = "Transformation" \/ last.op = "concatenate")
            => last.ok

\* C3: concatenating two Scale instances (frame-relative ones included)
\* returns successfully a plain Transformation, not a Scale, whose matrix
\* is S1.matrix x S2.matrix.
C3_ScaleConcatenatedIsTransformation ==
    (/\ last.op = "concatenated"
     /\ objs[last.self].cls = "Scale"
     /\ objs[last.other].cls = "Scale")
    => /\ last.ok
       /\ objs[last.res].cls = "Transformation"
       /\ Val(Heap, last.res)
            = multiply_matrices(last.pre[last.self], last.pre[last.other])

\* T * T.inverse() == I and I == T * T.inverse()
ComposesToIdentity(r) == r.ok /\ eq(IdentityT, r.val) /\ eq(r.val, IdentityT)

\* C4: for every instance T whose matrix is invertible, T.inverse()
\* succeeds, leaves T unchanged, and T * T.inverse() compares equal to the
\* transformation holding the identity matrix.
C4_InverseComposesToIdentity ==
    (/\ last.op = "inverse"
     /\ last.pre[last.self] # None
     /\ matrix_determinant(last.pre[last.self]) # Zero)
    => /\ last.ok
       /\ Val(Heap, last.self) = last.pre[last.self]
       /\ ComposesToIdentity(concatenated(Obj(Heap, last.self), Obj(Heap, last.res)))

\* C4 on the calls that return: T.inverse() leaves T unchanged whether it
\* returns or raises; when it returns, T * T.inverse() compares equal to the
\* identity; and it returns for every T of class Transformation itself whose
\* matrix is invertible.
C4_InverseWhenReturned ==
    (/\ last.op = "inverse"
     /\ last.pre[last.self] # None
     /\ matrix_determinant(last.pre[last.self]) # Zero)
    => /\ Val(Heap, last.self) = last.pre[last.self]
       /\ last.ok =>
            ComposesToIdentity(concatenated(Obj(Heap, last.self), Obj(Heap, last.res)))
       /\ objs[last.self].cls = "Transformation" => last.ok
       /\ ~last.ok => last.err = "ValueError"

(***************************************************************************)
(* Properties of the factories and pure methods (specification SpecCalls). *)
(***************************************************************************)
Returned(op) == pc = "done" /\ call.op = op

\* C5: decomposition round trip: for M = (Translation.from_vector(t) *
\* Rotation.from_euler_angles(a)) * Scale.from_factors(s) with positive s,
\* M.decomposed() returns (Sc, Sh, R, T, P) with Sc equal to the Scale of s,
\* R equal to the Rotation of a and T equal to the Translation of t.
C5_DecompositionRoundTrip ==
    Returned("decomposed") =>
        /\ ret.ok
        /\ eq(from_factors("Scale", call.s, NoFrame).val, ret.val[1])
        /\ eq(Rotation_from_euler_angles(call.a), ret.val[3])
        /\ eq(Translation_from_vector(call.t), ret.val[4])

\* a round trip through the gimbal lock, with an oblique angle and unequal
\* scale factors
C5_Witness ==
    /\ Returned("decomposed")
    /\ ret.ok
    /\ call.a[1] = Oblique
    /\ call.a[2] = Angle(Zero, One)
    /\ call.s = <<R(1), R(2), R(3)>>
    /\ ret.val[1].matrix = matrix_from_scale_factors(call.s)
    /\ ret.val[3].matrix = matrix_from_euler_angles(call.a)

Positive(s) == \A k \in I3 : RGt(s[k], Zero)

\* some entry of A and B differs by more than 1e-5
Apart(A, B) == \E i, j \in I4 : Differ(A[i][j], B[i][j], <<1, AllcloseTolDen>>)

\* every entry of M off the diagonal is within 1e-5 of zero
NearDiagonal(M) ==
    \A i, j \in I4 : i # j => ~Differ(M[i][j], Zero, <<1, AllcloseTolDen>>)

\* C6 as amended: Scale(matrix) fails with the invalid-transform error
\* (ValueError), creating no instance, whenever the matrix differs from the
\* canonical scale matrix of its scale factors by more than 1e-5 in some
\* entry: a matrix is accepted only if no shear, rotation or translation
\* moves an entry off its diagonal by more than 1e-5, and a matrix of
\* positive scale is accepted, as it is, exactly when it stays within 1e-5
\* of the canonical scale matrix.
C6_ScaleValidatesWithinTolerance ==
    Returned("Scale") =>
        /\ ret.ok => /\ NearDiagonal(ScaleMatrix(call.t, call.a, call.h, call.s))
                     /\ ret.val = [cls |-> "Scale",
                                   matrix |-> ScaleMatrix(call.t, call.a, call.h, call.s)]
        /\ Positive(call.s) =>
              /\ ret.ok <=> ~Apart(ScaleMatrix(call.t, call.a, call.h, call.s),
                                   matrix_from_scale_factors(call.s))
              /\ ~ret.ok => ret.err = "ValueError"

\* a sheared scale matrix is rejected
C6_Witness ==
    /\ Returned("Scale")
    /\ call.t = Vec(0, 0, 0)
    /\ call.a = NoTurn
    /\ call.h = Vec(1, 0, 0)
    /\ call.s = <<R(2), R(3), Rat(1, 2)>>
    /\ ~ret.ok
    /\ ret.err = "ValueError"

\* C6 as stated: Scale(matrix) rejects every matrix with nonzero shear, a
\* non-identity rotation or a nonzero translation.
C6_RejectsEveryNonScale ==
    Returned("Scale") =>
        ((\/ call.t # Vec(0, 0, 0)
          \/ call.h # Vec(0, 0, 0)
          \/ matrix_from_euler_angles(call.a) # identity_matrix) => ~ret.ok)

\* the point with coordinates c in the frame, and its image under the
\* scaling by f along the axes of the frame
InFrame(frame, c) ==
    add_vectors(frame.point,
        add_vectors(scale_vector(frame.xaxis, c[1]),
            add_vectors(scale_vector(frame.yaxis, c[2]),
                        scale_vector(zaxis(frame), c[3]))))
ScaledInFrame(frame, f, c) ==
    InFrame(frame, <<RMul(f[1], c[1]), RMul(f[2], c[2]), RMul(f[3], c[3])>>)

\* C7: frame-relative scaling: S = Scale.from_factors(factors, F) maps the
\* origin o of F to itself and the point o + a x + b y + c z to
\* o + fx a x + fy b y + fz c z.
C7_FrameRelativeScale ==
    Returned("from_factors") =>
        /\ ret.ok
        /\ ret.val.cls = "Scale"
        /\ transform_point(ret.val.matrix, call.frame.point) = call.frame.point
        /\ transform_point(ret.val.matrix, InFrame(call.frame, call.local))
             = ScaledInFrame(call.frame, call.factors, call.local)

\* origin (2, 5, 0), factors (2, 2, 2): (2, 10, 0) maps to (2, 15, 0)
C7_Witness ==
    /\ Returned("from_factors")
    /\ ret.ok
    /\ call.frame = Frame(Vec(2, 5, 0), Vec(1, 0, 0), Vec(0, 1, 0))
    /\ call.factors = <<R(2), R(2), R(2)>>
    /\ InFrame(call.frame, call.local) = Vec(2, 10, 0)
    /\ transform_point(ret.val.matrix, Vec(2, 10, 0)) = Vec(2, 15, 0)

\* inverse(from_frame_to_frame(A, B)), as a Transformation
InverseFrameToFrame == Instantiate("Transformation",
    matrix_inverse(ret.from_frame_to_frame.val.matrix).val).val

\* from_frame(A) and inverse(from_frame(B)) commute
FramesCommute(A, B) ==
    multiply_matrices(matrix_from_frame(A), matrix_inverse(matrix_from_frame(B)).val)
      = multiply_matrices(matrix_inverse(matrix_from_frame(B)).val, matrix_from_frame(A))

C9_FromListNeedsSixteen ==
    Returned("from_list") =>
        IF Len(call.numbers) = 16
        THEN /\ ret.ok
             /\ \A i, j \in 0..3 :
                   ret.val.matrix[i + 1][j + 1] = R(call.numbers[4 * i + j + 1])
        ELSE ~ret.ok

\* x carries a matrix of exactly four rows of four elements
IsFourByFour(x) ==
    /\ "matrix" \in DOMAIN x
    /\ x.matrix # None
    /\ Len(x.matrix) = 4
    /\ \A i \in I4 : Len(x.matrix[i]) = 4

\* C10: equality is total and shape-aware: T == other never raises, is True
\* exactly when other carries a 4x4 matrix whose 16 elements each differ
\* from T's by at most 1e-5, and is False for any shape or field mismatch.
C10_EqualityShapeAware ==
    Returned("eq") =>
        /\ ret.ok
        /\ ret.val <=>
              /\ IsFourByFour(call.self)
              /\ IsFourByFour(call.other)
              /\ \A i, j \in I4 :
                    ~Differ(call.self.matrix[i][j], call.other.matrix[i][j],
                            <<1, EqTolDen>>)

\* C11: a Transformation constructed without a matrix argument holds the
\* 4x4 identity matrix: after T = Transformation() or S = Scale() the
\* instance has matrix[i][j] = 1 for i = j and 0 otherwise, compares equal
\* to Transformation(identity_matrix(4)), and copy, element assignment,
\* concatenation and inversion on it succeed.
C11_DefaultIsIdentity ==
    (last.op = "default") =>
        /\ last.ok
        /\ Val(Heap, last.res) = identity_matrix
        /\ eq(Obj(Heap, last.res), IdentityT)
        /\ copy(Heap, last.res).ok
        /\ setitem(Heap, last.res, 0, 0, One).ok
        /\ concatenate(Obj(Heap, last.res), IdentityT).ok
        /\ invert(Obj(Heap, last.res)).ok

\* C11, what a construction without arguments does: the instance is
\* created and its matrix attribute holds None.
C11_DefaultHoldsNone ==
    (last.op = "default") => last.ok /\ objs[last.res].matrix = 0

\* x is within 1e-5 of y
Near(x, y) == ~Differ(x, y, <<1, AllcloseTolDen>>)

\* the components d of a decomposition are those of a scaling by factors:
\* no shear, the identity rotation, no translation, no perspective, and the
\* scale vector equal to factors, each within 1e-5
ScaleComponents(d, factors) ==
    /\ d.ok
    /\ \A k \in I3 : /\ Near(d.val.shear[k], Zero)
                     /\ Near(cos(d.val.angles[k]), One)
                     /\ Near(sin(d.val.angles[k]), Zero)
                     /\ Near(d.val.translation[k], Zero)
                     /\ Near(d.val.scale[k], factors[k])
    /\ \A j \in I4 : Near(d.val.perspective[j], LastRow[j])

\* the diagonal of the upper 3x3 block
Diagonal(M) == <<M[1][1], M[2][2], M[3][3]>>

\* C12: every Scale instance satisfies the family invariant from the moment
\* it is constructed: for every instance returned by Scale(matrix) or by
\* Scale.from_factors(factors, frame), decomposing its matrix yields zero
\* shear, the identity rotation, zero translation, zero perspective and a
\* scale vector matching the declared factors within tolerance.
C12_ScaleFamilyInvariant ==
    /\ (Returned("Scale") /\ ret.ok) =>
          ScaleComponents(decompose_matrix(ret.val.matrix), Diagonal(ret.val.matrix))
    /\ Returned("from_factors") =>
          /\ ret.ok
          /\ ScaleComponents(decompose_matrix(ret.val.matrix), call.factors)

\* C12, the translation alone: the matrix of an instance returned by
\* Scale.from_factors(factors, frame) has a zero translation column.
C12_FromFactorsHasNoTranslation ==
    (Returned("from_factors") /\ ret.ok) =>
        \A k \in I3 : Near(translation_from_matrix(ret.val.matrix)[k], Zero)

\* C12, the instances that went through the check of Scale.__init__: an
\* accepted Scale(matrix) satisfies the family invariant.
C12_ValidatedScaleSatisfies ==
    (Returned("Scale") /\ ret.ok) =>
        ScaleComponents(decompose_matrix(ret.val.matrix), Diagonal(ret.val.matrix))

\* a and b were constructed from the same list: one from the list of the
\* other (from_matrix, from_data), or both from the list of a third
SameSource(a, b) ==
    \/ objs[a].shared = b
    \/ objs[b].shared = a
    \/ objs[a].shared # 0 /\ objs[a].shared = objs[b].shared

\* C13: a Transformation exclusively owns its matrix and is mutated only
\* through its own methods: a change to d['matrix'] of d = T.to_data() (the
\* list m the instance was constructed from) changes no element of the
\* matrix of any instance, and an in-place mutation of an instance built
\* by from_matrix or from_data from the same list changes no element of
\* the matrix of the others built from it.
C13_ExclusiveOwnership ==
    /\ (last.op = "setdata" /\ last.ok) =>
          \A o \in Ids : Val(Heap, o) = last.pre[o]
    /\ (last.op \in Mutators /\ last.ok) =>
          \A o \in Ids \ {last.self} :
             SameSource(o, last.self) => Val(Heap, o) = last.pre[o]

\* C13, what the constructors do: an instance built by from_matrix or
\* from_data holds the very list of the instance it was built from, for as
\* long as neither is rebound by transpose, invert or concatenate.
C13_ConstructorsStoreTheReference ==
    (last.op \in {"from_matrix", "from_data"} /\ last.ok) =>
        objs[last.res].matrix = objs[last.other].matrix

\* C13, the mutations that rebind: transpose, invert and concatenate assign
\* a new list to self.matrix and change no other instance, whatever it
\* shares.
C13_RebindingChangesOnlySelf ==
    (last.op \in {"transpose", "invert", "concatenate"} /\ last.ok) =>
        \A o \in Ids \ {last.self} : Val(Heap, o) = last.pre[o]

\* the properties of instance o read now: translation, scale and list are
\* those of the matrix M
ReadsCurrent(o, M) ==
    /\ translation(Obj(Heap, o)) = Ok(<<M[1][4], M[2][4], M[3][4]>>)
    /\ scale(Obj(Heap, o)) = Ok(<<M[1][1], M[2][2], M[3][3]>>)
    /\ list(Obj(Heap, o)).ok
    /\ Len(list(Obj(Heap, o)).val) = 16
    /\ \A i, j \in 0..3 : list(Obj(Heap, o)).val[4 * i + j + 1] = M[i + 1][j + 1]

\* C14: derived properties are never stale: in every state, after any
\* sequence of in-place mutations (T[i, j] = v, transpose, invert,
\* concatenate, and writes through a shared list), T.translation equals
\* [M[0][3], M[1][3], M[2][3]], T.scale equals [M[0][0], M[1][1], M[2][2]]
\* and T.list is the row-major flattening of M, M being T's current
\* matrix; after T.transpose() they are those of the transpose of the
\* matrix T had before, after T.concatenate(X) those of the product, and
\* after T[i, j] = v the entry of T.list at 4 i + j is one just assigned.
C14_PropertiesNeverStale ==
    /\ \A o \in Ids : Val(Heap, o) # None => ReadsCurrent(o, Val(Heap, o))
    /\ (last.op = "transpose" /\ last.ok) =>
          ReadsCurrent(last.self, transpose_matrix(last.pre[last.self]))
    /\ (last.op = "concatenate" /\ last.ok) =>
          ReadsCurrent(last.self,
              multiply_matrices(last.pre[last.self], last.pre[last.other]))
    /\ (last.op = "invert" /\ last.ok) =>
          ReadsCurrent(last.self, matrix_inverse(last.pre[last.self]).val)
    /\ (last.op = "setitem" /\ last.ok) =>
          \E c \in SetCells, v \in SetVals :
             ReadsCurrent(last.self,
                 [last.pre[last.self] EXCEPT ![c[1] + 1][c[2] + 1] = v])

\* T = Transformation(translation by (1, 2, 3)); T[1, 3] = 5; T.transpose():
\* the translation read after the two mutations is (0, 0, 0) and the list
\* has the 5 at index 4 * 3 + 1
C14_Witness ==
    /\ last.op = "transpose"
    /\ last.ok
    /\ last.pre[last.self] =
          [matrix_from_translation(Vec(1, 2, 3)) EXCEPT ![2][4] = R(5)]
    /\ translation(Obj(Heap, last.self)) = Ok(Vec(0, 0, 0))
    /\ list(Obj(Heap, last.self)).val[14] = R(5)

NonMutating == {"concatenated", "transposed", "inverse"}
Rebinding == {"concatenate", "transpose", "invert"}

\* the operands of the last call held 4x4 matrices, and an invertible one
\* if it was asked for the inverse
OperandsDefined ==
    /\ last.pre[last.self] # None
    /\ last.other # 0 => last.pre[last.other] # None
    /\ last.op = "inverse" => matrix_inverse(last.pre[last.self]).ok

\* every instance that existed before the last call, but for the instances
\* in except, holds the matrix it held
Untouched(except) ==
    \A o \in DOMAIN last.pre : o \notin except => Val(Heap, o) = last.pre[o]

\* C15: the non-mutating counterparts leave their operands unchanged: for
\* all Transformations A and B with 4x4 matrices, A.concatenated(B), A * B,
\* A.transposed() and A.inverse() return a new object and leave every
\* element of A.matrix and B.matrix exactly as before the call, whereas
\* A.concatenate(B), A.transpose() and A.invert() change only A and never
\* another instance B.
C15_NonMutatingCounterparts ==
    /\ (last.op \in NonMutating /\ OperandsDefined) =>
          /\ last.ok
          /\ last.res \notin DOMAIN last.pre
          /\ Untouched({})
    /\ last.op \in Rebinding => Untouched({last.self})

\* C15, the effect on the operands alone: whether they return or raise,
\* concatenated, transposed and inverse leave the matrix of every existing
\* instance as it was, and when they return, the instance returned is a new
\* one holding a list no other instance holds; concatenate, transpose and
\* invert leave every instance but self as it was.
C15_OperandsUnchanged ==
    /\ last.op \in NonMutating =>
          /\ Untouched({})
          /\ last.ok =>
                /\ last.res \notin DOMAIN last.pre
                /\ \A o \in Ids \ {last.res} :
                      objs[o].matrix # objs[last.res].matrix
    /\ last.op \in Rebinding => Untouched({last.self})

\* C15, plain Transformations: on instances of class Transformation the
\* non-mutating counterparts return whenever the operands are defined.
C15_TransformationsReturn ==
    (last.op \in NonMutating /\ OperandsDefined
        /\ objs[last.self].cls = "Transformation") => last.ok

\* the last call was made on an instance as its constructor or factory
\* returned it: Transformation(), Scale(), Transformation(m) or
\* Scale.from_factors(factors[, frame])
OnFreshInstance == steps = 2 /\ last.self = 1

\* C16: copy() succeeds for every constructible instance and preserves type
\* and value: for every Transformation or Scale instance X as obtained from
\* a constructor or factory, X.copy() returns without error an instance of
\* the same class whose matrix is elementwise equal to X's, and so
\* X.transposed() and X.inverse(), which start from a copy, do not fail.
C16_CopySucceeds ==
    /\ (last.op = "copy" /\ OnFreshInstance) =>
          /\ last.ok
          /\ objs[last.res].cls = objs[last.self].cls
          /\ Val(Heap, last.res) = Val(Heap, last.self)
    /\ (last.op \in {"transposed", "inverse"} /\ OnFreshInstance) => last.ok

\* C16, when copy() does succeed and when not: on an instance of class
\* Transformation holding a matrix it always returns an instance of the
\* same class with an equal matrix; it raises AttributeError exactly when
\* the instance holds None, and otherwise fails only on a Scale, with the
\* error of the check of Scale.__init__.
C16_CopyOutcome ==
    last.op = "copy" =>
        /\ last.ok => /\ objs[last.res].cls = objs[last.self].cls
                      /\ Val(Heap, last.res) = Val(Heap, last.self)
                      /\ Val(Heap, last.res) = last.pre[last.self]
        /\ (objs[last.self].cls = "Transformation"
              /\ last.pre[last.self] # None) => last.ok
        /\ last.pre[last.self] = None <=> (~last.ok /\ last.err = "AttributeError")
        /\ (~last.ok /\ last.pre[last.self] # None) =>
              /\ objs[last.self].cls = "Scale"
              /\ ~Scale_init(last.pre[last.self]).ok

====
